---------------------------- MODULE Spec2Model ----------------------------
(***************************************************************************)
(* A model of the acnh design library: the design identifier codec and the *)
(* remote design service client (src/acnh/designs/api.py), the error kinds *)
(* they raise (src/acnh/errors.py) and the design geometry catalog and     *)
(* image codec (src/acnh/designs/encode.py).                               *)
(*                                                                         *)
(* The library keeps no state of its own: every operation is one           *)
(* synchronous call.  A state of the model is one call: the operation and  *)
(* its inputs (call), the outbound requests it has issued so far           *)
(* (requests) and what it returned or raised (outcome).                    *)
(***************************************************************************)
EXTENDS Integers, Sequences, FiniteSets, TLC

VARIABLES call, requests, outcome

vars == <<call, requests, outcome>>

\* The outcome of a call that has not run yet.
Pending == [exc |-> "Pending"]

\* A call that returned val.
Return(val) == [exc |-> "None", val |-> val]

\* A call that raised the exception kind exc.
Raise(exc) == [exc |-> exc]

Min(a, b) == IF a <= b THEN a ELSE b

Max(a, b) == IF a >= b THEN a ELSE b

(***************************************************************************)
(* Python integers are unbounded and a design id ranges up to 30^12, which *)
(* is beyond the integers TLC computes with.  An id is therefore kept as   *)
(* two limbs in base 30^6: the id hi * 30^6 + lo, with 0 <= lo < 30^6.     *)
(* The three integer operations the codec uses are defined on the limbs.   *)
(***************************************************************************)
Limb == 30^6

LimbTop == 30^5

PyInt(hi, lo) == [hi |-> hi, lo |-> lo]

IntZero == PyInt(0, 0)

\* n * 30 + v, for 0 <= v < 30  (n *= 30; n += v)
IntMul30Add(n, v) ==
    PyInt(n.hi * 30 + (n.lo \div LimbTop), (n.lo % LimbTop) * 30 + v)

\* divmod(n, 30): <<quotient, remainder>>
IntDivMod30(n) ==
    <<PyInt(n.hi \div 30, (n.hi % 30) * LimbTop + (n.lo \div 30)), n.lo % 30>>

\* The truth value of an integer: it is not zero.
IntTruthy(n) == n.hi # 0 \/ n.lo # 0

(***************************************************************************)
(* Strings are sequences of one-character strings.                         *)
(***************************************************************************)
DESIGN_CODE_ALPHABET ==
    << "0", "1", "2", "3", "4", "5", "6", "7", "8", "9",
       "B", "C", "D", "F", "G", "H", "J", "K", "L", "M",
       "N", "P", "Q", "R", "S", "T", "V", "W", "X", "Y" >>

AlphabetChars == {DESIGN_CODE_ALPHABET[i] : i \in 1..Len(DESIGN_CODE_ALPHABET)}

\* {c: val for val, c in enumerate(DESIGN_CODE_ALPHABET)}; a lookup of a
\* character that is no key raises KeyError (here: the value -1).
DESIGN_CODE_ALPHABET_VALUES(c) ==
    IF c \in AlphabetChars
    THEN (CHOOSE i \in 1..Len(DESIGN_CODE_ALPHABET) : DESIGN_CODE_ALPHABET[i] = c) - 1
    ELSE -1

\* str.replace(old, '')
RECURSIVE StrRemove(_, _)
StrRemove(s, old) ==
    IF s = <<>> THEN <<>>
    ELSE IF Head(s) = old THEN StrRemove(Tail(s), old)
    ELSE <<Head(s)>> \o StrRemove(Tail(s), old)

\* str.zfill(width): zeros on the left up to width characters
RECURSIVE zfill(_, _)
zfill(s, width) == IF Len(s) >= width THEN s ELSE zfill(<<"0">> \o s, width)

\* reversed(seq)
Reversed(s) == [i \in 1..Len(s) |-> s[Len(s) + 1 - i]]

\* utils.chunked(seq, n): the slices of length n in order, a short last one
\* not padded.
chunked(s, n) ==
    [i \in 1..((Len(s) + n - 1) \div n) |-> SubSeq(s, (i - 1) * n + 1, Min(i * n, Len(s)))]

\* sep.join(parts)
RECURSIVE Join(_, _)
Join(sep, parts) ==
    IF parts = <<>> THEN <<>>
    ELSE IF Len(parts) = 1 THEN parts[1]
    ELSE parts[1] \o <<sep>> \o Join(sep, Tail(parts))

\* The groups and their length: the literal 4 * 3 of design_code and
\* add_hyphens, and the chunk length 4.
CODE_GROUP == 4

CODE_GROUPS == 3

\* design_id(design_code): fold the characters that are not hyphens,
\* n = n * 30 + value.  A character outside the alphabet raises KeyError.
RECURSIVE DesignIdFold(_, _)
DesignIdFold(code, n) ==
    IF code = <<>> THEN n
    ELSE DesignIdFold(Tail(code), IntMul30Add(n, DESIGN_CODE_ALPHABET_VALUES(Head(code))))

design_id(design_code) ==
    LET code == StrRemove(design_code, "-")
    IN  IF \E i \in 1..Len(code) : code[i] \notin AlphabetChars
        THEN Raise("KeyError")
        ELSE Return(DesignIdFold(code, IntZero))

\* add_hyphens(author_id)
add_hyphens(author_id) ==
    Join("-", chunked(zfill(author_id, CODE_GROUP * CODE_GROUPS), CODE_GROUP))

\* The loop of design_code: the digits, least significant first.
RECURSIVE DesignCodeDigits(_)
DesignCodeDigits(id) ==
    IF ~IntTruthy(id) THEN <<>>
    ELSE LET qr == IntDivMod30(id)
         IN  <<DESIGN_CODE_ALPHABET[qr[2] + 1]>> \o DesignCodeDigits(qr[1])

\* A design_code that writes the digits least significant first.
design_code_unreversed(id) ==
    add_hyphens(zfill(DesignCodeDigits(id), CODE_GROUP * CODE_GROUPS))

\* design_code(design_id)
design_code(id) ==
    add_hyphens(zfill(Reversed(DesignCodeDigits(id)), CODE_GROUP * CODE_GROUPS))

(***************************************************************************)
(* The identifier codec on its own: an id is drawn, design_code is applied *)
(* to it and design_id to the code.                                        *)
(***************************************************************************)
\* How many spread-out limb values are drawn besides the edge values.
MaxSample == 6

LimbSamples ==
    {0, 1, 29, 30, 31, 899, 900, LimbTop - 1, LimbTop, Limb - 30, Limb - 1}
        \cup {(k * 100000007) % Limb : k \in 1..MaxSample}

IdSamples == {PyInt(hi, lo) : hi \in LimbSamples, lo \in LimbSamples}

InitCodec ==
    /\ call \in {[op |-> "design_code", id |-> id] : id \in IdSamples}
    /\ requests = <<>>
    /\ outcome = Pending

\* code = design_code(id)
DesignCode ==
    /\ call.op = "design_code"
    /\ outcome = Pending
    /\ outcome' = Return(design_code(call.id))
    /\ UNCHANGED <<call, requests>>

\* design_id(code), of the code design_code produced
DesignId ==
    /\ call.op = "design_code"
    /\ outcome.exc = "None"
    /\ call' = [op |-> "design_id", id |-> call.id, code |-> outcome.val]
    /\ outcome' = design_id(outcome.val)
    /\ UNCHANGED requests

NextCodec == DesignCode \/ DesignId

SpecCodec == InitCodec /\ [][NextCodec]_vars

\* The code of the call, once there is one.
CodecCode ==
    IF call.op = "design_id" THEN call.code ELSE outcome.val

\* C1, first half: design_id(design_code(id)) = id for every id in [0, 30^12).
C1_RoundTrip ==
    call.op = "design_id" => outcome = Return(call.id)

\* C1, second half: design_code(id) is 14 characters, three groups of four
\* alphabet characters separated by two hyphens.
C1_Shape ==
    (call.op = "design_id" \/ outcome.exc = "None") =>
        /\ Len(CodecCode) = 14
        /\ \A i \in 1..14 :
              IF i \in {5, 10} THEN CodecCode[i] = "-"
              ELSE CodecCode[i] \in AlphabetChars

\* C1: for every id in [0, 30^12), design_id(design_code(id)) = id and
\* design_code(id) is XXXX-XXXX-XXXX over the alphabet; design_code(0) is
\* 0000-0000-0000.
C1_CodecInverse ==
    /\ C1_RoundTrip
    /\ C1_Shape
    /\ (call.op = "design_id" /\ call.id = IntZero) =>
          call.code = <<"0","0","0","0","-","0","0","0","0","-","0","0","0","0">>

\* C1's case: an id using all twelve digits has been encoded and decoded.
C1_Witness ==
    /\ call.op = "design_id"
    /\ call.id = PyInt(Limb - 1, Limb - 30)
    /\ call.code = <<"Y","Y","Y","Y","-","Y","Y","Y","Y","-","Y","Y","Y","0">>
    /\ outcome = Return(call.id)

(***************************************************************************)
(* The error kinds the client raises (src/acnh/errors.py).                 *)
(***************************************************************************)
HTTP_NOT_FOUND == 404

HTTP_BAD_REQUEST == 400

UnknownDesignCodeError ==
    [name |-> "UnknownDesignCodeError", code |-> 201, http_status |-> HTTP_NOT_FOUND]

InvalidDesignCodeError ==
    [name |-> "InvalidDesignCodeError", code |-> 202, http_status |-> HTTP_BAD_REQUEST]

\* raise cls: the exception carries its class's code and status.
RaiseError(cls) == [exc |-> cls.name, code |-> cls.code, http_status |-> cls.http_status]

\* InvalidDesignCodeError.regex.fullmatch(s), the regex being
\* '-'.join(['[0123456789BCDFGHJKLMNPQRSTVWXY]{4}'] * 3)
InvalidDesignCodeError_regex_fullmatch(s) ==
    /\ Len(s) = CODE_GROUP * CODE_GROUPS + (CODE_GROUPS - 1)
    /\ \A i \in 1..Len(s) :
          IF i % (CODE_GROUP + 1) = 0 THEN s[i] = "-" ELSE s[i] \in AlphabetChars

\* InvalidFormatError.validate, as the classmethod of InvalidDesignCodeError
InvalidDesignCodeError_validate(s) ==
    IF ~InvalidDesignCodeError_regex_fullmatch(s)
    THEN RaiseError(InvalidDesignCodeError)
    ELSE Return(s)

(***************************************************************************)
(* The remote design service client.  An operation yields the requests it  *)
(* issued, in order, and its outcome.  The service's responses are inputs. *)
(***************************************************************************)
Ran(reqs, out) == [requests |-> reqs, outcome |-> out]

IsStr(x) == x.kind = "str"

\* A wrapper that converts a string without validating it first.
accepts_design_id_unvalidated(design_id_or_code) ==
    IF IsStr(design_id_or_code)
    THEN design_id(design_id_or_code.s)
    ELSE Return(design_id_or_code.n)

\* accepts_design_id(func): the design_id_ that wrapped(design_id_or_code)
\* computes before it calls func, or what it raises instead.
accepts_design_id(design_id_or_code) ==
    IF IsStr(design_id_or_code)
    THEN LET v == InvalidDesignCodeError_validate(design_id_or_code.s)
         IN  IF v.exc # "None" THEN v ELSE design_id(v.val)
    ELSE Return(design_id_or_code.n)

\* resp.raise_for_status(): a 4xx or 5xx status raises
RaisesForStatus(status) == status >= 400 /\ status < 600

\* merge_headers(data, headers)
merge_headers(data, headers) ==
    [k \in DOMAIN data \cup {"author_name", "author_id", "created_at", "updated_at"} |->
        CASE k = "author_name" -> headers.design_player_name
          [] k = "author_id"   -> headers.design_player_id
          [] k = "created_at"  -> headers.created_at
          [] k = "updated_at"  -> headers.updated_at
          [] OTHER             -> data[k]]

\* The request of download_design for the header of one design.
DesignQuery(id) ==
    [method |-> "GET", path |-> "/api/v2/designs", offset |-> 0, limit |-> 1,
     design_id |-> id]

\* urlparse(headers['body']), requested as url.path + '?' + url.query
BodyRequest(url) == [method |-> "GET", path |-> url.path, query |-> url.query]

\* A download_design that fetches the body before it looks at partial.
download_design_eager(id, partial, resp, body) ==
    LET first == <<DesignQuery(id)>>
    IN  IF RaisesForStatus(resp.status) THEN Ran(first, Raise("HTTPError"))
        ELSE IF resp.total = 0 THEN Ran(first, RaiseError(UnknownDesignCodeError))
        ELSE IF resp.total > 1 THEN Ran(first, Raise("RuntimeError"))
        ELSE LET headers == resp.headers[1]
                 both == first \o <<BodyRequest(headers.body)>>
             IN  IF partial THEN Ran(both, Return(headers))
                 ELSE Ran(both, Return(merge_headers(body.content, headers)))

\* download_design(design_id, partial), the decorated function's body; resp
\* is the service's answer to the first request and body to the second.
download_design_func(id, partial, resp, body) ==
    LET first == <<DesignQuery(id)>>
    IN  IF RaisesForStatus(resp.status) THEN Ran(first, Raise("HTTPError"))
        ELSE IF resp.total = 0 THEN Ran(first, RaiseError(UnknownDesignCodeError))
        ELSE IF resp.total > 1 THEN Ran(first, Raise("RuntimeError"))
        ELSE LET headers == resp.headers[1]
             IN  IF partial THEN Ran(first, Return(headers))
                 ELSE Ran(first \o <<BodyRequest(headers.body)>>,
                          Return(merge_headers(body.content, headers)))

\* download_design, decorated with accepts_design_id
download_design(design_id_or_code, partial, resp, body) ==
    LET design_id_ == accepts_design_id(design_id_or_code)
    IN  IF design_id_.exc # "None" THEN Ran(<<>>, design_id_)
        ELSE download_design_func(design_id_.val, partial, resp, body)

\* delete_design(design_id), the decorated function's body; status is the
\* status of the service's response.
delete_design_func(id, status) ==
    LET reqs == <<[method |-> "DELETE", path |-> "/api/v1/designs/", design_id |-> id]>>
    IN  IF status = HTTP_NOT_FOUND
        THEN Ran(reqs, RaiseError(UnknownDesignCodeError))
        ELSE Ran(reqs, Return("None"))

\* delete_design, decorated with accepts_design_id
delete_design(design_id_or_code, status) ==
    LET design_id_ == accepts_design_id(design_id_or_code)
    IN  IF design_id_.exc # "None" THEN Ran(<<>>, design_id_)
        ELSE delete_design_func(design_id_.val, status)

(***************************************************************************)
(* The inputs of the client's calls.                                       *)
(***************************************************************************)
ApiIds == {IntZero, PyInt(0, 30), PyInt(1, 0), PyInt(Limb - 1, Limb - 1)}

StrArg(s) == [kind |-> "str", s |-> s]

IntArg(n) == [kind |-> "int", n |-> n]

\* Design codes as design_code writes them.
HyphenatedCodes == {design_code(id) : id \in ApiIds}

\* The same codes without their hyphens.
BareCodes == {StrRemove(c, "-") : c \in HyphenatedCodes}

\* Strings that are no design code: empty, a character too many or too few,
\* a character outside the alphabet, other separators, misplaced hyphens.
Malformed ==
    LET c == design_code(PyInt(1, 0))
    IN  { <<>>,
          c \o <<"0">>,
          SubSeq(c, 1, 13),
          [c EXCEPT ![1] = "A"],
          [c EXCEPT ![14] = "b"],
          [c EXCEPT ![5] = "_"],
          [c EXCEPT ![5] = "0", ![6] = "-"],
          <<"-">> \o SubSeq(c, 1, 13) }

DesignIdArgs ==
    {StrArg(s) : s \in HyphenatedCodes \cup BareCodes \cup Malformed}
        \cup {IntArg(n) : n \in ApiIds}

\* The headers the service may hold.
Headers ==
    { [design_player_name |-> "ana", design_player_id |-> 7, created_at |-> 10,
       updated_at |-> 11, id |-> PyInt(0, 30),
       body |-> [host |-> "cdn", path |-> "/designs/a", query |-> "sig=1"]],
      [design_player_name |-> "bo", design_player_id |-> 8, created_at |-> 20,
       updated_at |-> 20, id |-> PyInt(1, 0),
       body |-> [host |-> "cdn", path |-> "/designs/b", query |-> "sig=2"]] }

\* The service's answers to the id-filtered query: a failure status, or a
\* page of at most limit = 1 headers with the total of the matches.
QueryResponses ==
    {[status |-> st, total |-> 0, headers |-> <<>>] : st \in {200, 401, 500}}
        \cup {[status |-> 200, total |-> t, headers |-> <<h>>] : t \in 1..2, h \in Headers}

\* The service's answers to the body request.
BodyResponses ==
    { [status |-> st, content |-> c] :
        st \in {200, 500},
        c \in { [mMeta |-> "meta", mData |-> "data"],
                [mMeta |-> "meta", mData |-> "data", author_name |-> "stale",
                 created_at |-> 0] } }

DeleteStatuses == {200, 204, 400, 401, 404, 500}

SuccessStatuses == {200, 204}

\* The client holds no state between calls: a behaviour is one call, made
\* from the idle client.
InitApi ==
    /\ call = [op |-> "idle"]
    /\ requests = <<>>
    /\ outcome = Pending

\* One call of download_design.
DownloadDesign ==
    \E arg \in DesignIdArgs, partial \in BOOLEAN,
       resp \in QueryResponses, body \in BodyResponses :
        LET r == download_design(arg, partial, resp, body)
        IN  /\ call.op = "idle"
            /\ call' = [op |-> "download_design", arg |-> arg, partial |-> partial,
                        resp |-> resp, body |-> body]
            /\ requests' = r.requests
            /\ outcome' = r.outcome

\* One call of delete_design.
DeleteDesign ==
    \E arg \in DesignIdArgs, status \in DeleteStatuses :
        LET r == delete_design(arg, status)
        IN  /\ call.op = "idle"
            /\ call' = [op |-> "delete_design", arg |-> arg, status |-> status]
            /\ requests' = r.requests
            /\ outcome' = r.outcome

NextApi == DownloadDesign \/ DeleteDesign

SpecApi == InitApi /\ [][NextApi]_vars

IdCall == call.op \in {"download_design", "delete_design"}

\* The call was given a string that is twelve alphabet characters, with the
\* two hyphens or without any.
GivenCode(hyphens) ==
    /\ IdCall
    /\ IsStr(call.arg)
    /\ Len(StrRemove(call.arg.s, "-")) = 12
    /\ \A i \in 1..Len(call.arg.s) : call.arg.s[i] \in AlphabetChars \cup {"-"}
    /\ IF hyphens THEN InvalidDesignCodeError_regex_fullmatch(call.arg.s)
       ELSE Len(call.arg.s) = 12

\* The operation was invoked with id: its first request names it.
InvokedWith(id) == requests # <<>> /\ requests[1].design_id = id

\* C2: download_design and delete_design accept a design code with and
\* without hyphens: both forms pass validation and the operation is invoked
\* with design_id(code).
C2_HyphensOptional ==
    (GivenCode(TRUE) \/ GivenCode(FALSE)) =>
        /\ outcome.exc # "InvalidDesignCodeError"
        /\ InvokedWith(design_id(call.arg.s).val)

\* C2, the hyphenated half, which the code does meet.
C2_HyphenatedAccepted ==
    GivenCode(TRUE) =>
        /\ outcome.exc # "InvalidDesignCodeError"
        /\ InvokedWith(design_id(call.arg.s).val)

\* The call was given a string that fails the design-code validation.
GivenInvalid ==
    IdCall /\ IsStr(call.arg) /\ ~InvalidDesignCodeError_regex_fullmatch(call.arg.s)

\* C3: a string that fails validation raises InvalidDesignCodeError with no
\* request issued; an integer is passed to the operation unchanged.
C3_ValidationShortCircuits ==
    /\ GivenInvalid =>
          /\ outcome = RaiseError(InvalidDesignCodeError)
          /\ requests = <<>>
    /\ (IdCall /\ ~IsStr(call.arg)) => InvokedWith(call.arg.n)

\* C3's case: a string with a character outside the alphabet was refused.
C3_Witness ==
    /\ call.op = "download_design"
    /\ IsStr(call.arg)
    /\ Len(call.arg.s) = 14
    /\ call.arg.s[1] = "A"
    /\ outcome.exc = "InvalidDesignCodeError"
    /\ requests = <<>>

\* C5: delete_design raises UnknownDesignCodeError (201) on a 404, a generic
\* HTTP failure on every other non-success status, and returns normally
\* only on a success status.
C5_DeleteStatuses ==
    (call.op = "delete_design" /\ requests # <<>>) =>
        IF call.status = HTTP_NOT_FOUND
        THEN outcome.exc = "UnknownDesignCodeError" /\ outcome.code = 201
        ELSE IF call.status \in SuccessStatuses THEN outcome.exc = "None"
        ELSE outcome.exc = "HTTPError"

\* C5, the part about the 404 alone.
C5_NotFound ==
    (call.op = "delete_design" /\ requests # <<>> /\ call.status = HTTP_NOT_FOUND) =>
        outcome.exc = "UnknownDesignCodeError" /\ outcome.code = 201

\* The id-filtered query of a download_design call was answered with success.
Downloaded ==
    /\ call.op = "download_design"
    /\ requests # <<>>
    /\ ~RaisesForStatus(call.resp.status)

\* C6: after the id-filtered request (offset 0, limit 1), total 0 raises
\* UnknownDesignCodeError and total > 1 a generic failure, both with no
\* second request; total 1 with partial returns the header after one
\* request; total 1 without partial issues one further request, to the
\* header's body URL, and returns the body record with author_name,
\* author_id, created_at and updated_at taken from the header.
C6_DownloadDesign ==
    Downloaded =>
        /\ requests[1].offset = 0 /\ requests[1].limit = 1
        /\ call.resp.total = 0 =>
              outcome.exc = "UnknownDesignCodeError" /\ Len(requests) = 1
        /\ call.resp.total > 1 =>
              outcome.exc = "RuntimeError" /\ Len(requests) = 1
        /\ (call.resp.total = 1 /\ call.partial) =>
              outcome = Return(call.resp.headers[1]) /\ Len(requests) = 1
        /\ (call.resp.total = 1 /\ ~call.partial) =>
              LET h == call.resp.headers[1]
              IN  /\ Len(requests) = 2
                  /\ requests[2].path = h.body.path
                  /\ requests[2].query = h.body.query
                  /\ outcome.exc = "None"
                  /\ outcome.val.author_name = h.design_player_name
                  /\ outcome.val.author_id = h.design_player_id
                  /\ outcome.val.created_at = h.created_at
                  /\ outcome.val.updated_at = h.updated_at
                  /\ \A k \in DOMAIN call.body.content :
                        k \notin {"author_name", "author_id", "created_at", "updated_at"}
                            => outcome.val[k] = call.body.content[k]

\* C6's case: a full download whose body record held stale author fields.
C6_Witness ==
    /\ Downloaded
    /\ call.resp.total = 1
    /\ ~call.partial
    /\ "author_name" \in DOMAIN call.body.content
    /\ Len(requests) = 2
    /\ outcome.exc = "None"
    /\ outcome.val.author_name = "bo"

(***************************************************************************)
(* stale_designs: which of the operator's designs to evict.                *)
(***************************************************************************)
MAX_DESIGNS == 120

\* The page size list_designs asks for.
LIST_LIMIT == 120

\* 'true' if pro else 'false'
BoolParam(b) == IF b THEN "true" ELSE "false"

\* list_designs(author_id, pro=pro, with_binaries=False); resp is the
\* service's answer.
list_designs(author_id, pro, with_binaries, resp) ==
    LET reqs == <<[method |-> "GET", path |-> "/api/v2/designs", offset |-> 0,
                   limit |-> LIST_LIMIT, player_id |-> author_id,
                   pro |-> BoolParam(pro), with_binaries |-> BoolParam(with_binaries)]>>
    IN  IF RaisesForStatus(resp.status) THEN Ran(reqs, Raise("HTTPError"))
        ELSE Ran(reqs, Return(resp.content))

\* The merge of two sequences sorted by created_at, the left one's elements
\* first among equals.
RECURSIVE MergeByCreatedAt(_, _)
MergeByCreatedAt(a, b) ==
    IF a = <<>> THEN b
    ELSE IF b = <<>> THEN a
    ELSE IF a[1].created_at <= b[1].created_at
         THEN <<a[1]>> \o MergeByCreatedAt(Tail(a), b)
         ELSE <<b[1]>> \o MergeByCreatedAt(a, Tail(b))

\* sorted(headers, key=operator.itemgetter('created_at')): a stable sort
RECURSIVE SortedByCreatedAt(_)
SortedByCreatedAt(headers) ==
    IF Len(headers) <= 1 THEN headers
    ELSE LET mid == Len(headers) \div 2
         IN  MergeByCreatedAt(SortedByCreatedAt(SubSeq(headers, 1, mid)),
                              SortedByCreatedAt(SubSeq(headers, mid + 1, Len(headers))))

\* seq[:n]
Take(seq, n) == SubSeq(seq, 1, Min(n, Len(seq)))

\* A stale_designs that takes the first headers of the page as the service
\* ordered them.
stale_designs_unsorted(needed, pro, creator_id, resp) ==
    LET l == list_designs(creator_id, pro, FALSE, resp)
    IN  IF l.outcome.exc # "None" THEN l
        ELSE LET r == l.outcome.val
                 free_slots == MAX_DESIGNS - r.count
             IN  IF free_slots >= needed THEN Ran(l.requests, Return(<<>>))
                 ELSE Ran(l.requests, Return(Take(r.headers, needed)))

\* stale_designs(needed, pro=pro); creator_id is
\* config['acnh-design-creator-id'].
stale_designs(needed, pro, creator_id, resp) ==
    LET l == list_designs(creator_id, pro, FALSE, resp)
    IN  IF l.outcome.exc # "None" THEN l
        ELSE LET r == l.outcome.val
                 free_slots == MAX_DESIGNS - r.count
             IN  IF free_slots >= needed THEN Ran(l.requests, Return(<<>>))
                 ELSE Ran(l.requests, Return(Take(SortedByCreatedAt(r.headers), needed)))

\* How many orders of creation the operator's designs are drawn in.
MaxSeed == 1

\* The times of creation repeat after this many.
CreatedAtRange == 53

\* The operator's c designs as the service lists them: distinct ids, times
\* of creation in a scattered order, some of them equal.
OperatorDesigns(c, seed) ==
    [i \in 1..c |-> [id |-> i, created_at |-> (i * (37 + 4 * seed) + 11 * seed) % CreatedAtRange]]

\* The service's answers to the operator's listing: a failure, or the page
\* of all c <= 120 designs of the operator with their count.
ListResponses ==
    {[status |-> 500, content |-> [count |-> 0, headers |-> <<>>]]}
        \cup { [status |-> 200, content |-> [count |-> c, headers |-> OperatorDesigns(c, seed)]] :
                 c \in 0..MAX_DESIGNS, seed \in 0..MaxSeed }

NeededSamples == {0, 1, 10, 60, 61, MAX_DESIGNS, MAX_DESIGNS + 1}

InitStale ==
    /\ call = [op |-> "idle"]
    /\ requests = <<>>
    /\ outcome = Pending

\* One call of stale_designs.
StaleDesigns ==
    \E needed \in NeededSamples, pro \in BOOLEAN, resp \in ListResponses :
        LET r == stale_designs(needed, pro, 4242, resp)
        IN  /\ call.op = "idle"
            /\ call' = [op |-> "stale_designs", needed |-> needed, pro |-> pro,
                        resp |-> resp]
            /\ requests' = r.requests
            /\ outcome' = r.outcome

NextStale == StaleDesigns

SpecStale == InitStale /\ [][NextStale]_vars

\* stale_designs got the operator's listing.
Listed == call.op = "stale_designs" /\ ~RaisesForStatus(call.resp.status)

\* The free slots do not cover what is needed.
MustEvict == Listed /\ MAX_DESIGNS - call.resp.content.count < call.needed

\* The result is n of the listed designs, the oldest ones, oldest first.
OldestFirst(n) ==
    LET res == outcome.val
        all == call.resp.content.headers
        chosen == {res[i].id : i \in 1..Len(res)}
    IN  /\ Len(res) = n
        /\ Cardinality(chosen) = n
        /\ \A i \in 1..Len(res) : \E j \in 1..Len(all) : all[j] = res[i]
        /\ \A i \in 1..(Len(res) - 1) : res[i].created_at <= res[i + 1].created_at
        /\ \A j \in 1..Len(all) :
              all[j].id \notin chosen =>
                  \A i \in 1..Len(res) : res[i].created_at <= all[j].created_at

\* C4 as stated: with c designs, the result is empty when 120 - c >= needed
\* and otherwise exactly `needed` headers, the oldest in ascending order.
C4_ExactlyNeeded ==
    /\ (Listed /\ ~MustEvict) => outcome = Return(<<>>)
    /\ MustEvict => outcome.exc = "None" /\ OldestFirst(call.needed)

\* C4, amended: with c designs, the result is empty when 120 - c >= needed
\* and otherwise the min(needed, c) oldest headers in ascending created_at
\* order (exactly `needed` of them whenever needed <= c).
C4_StaleDesigns ==
    /\ (Listed /\ ~MustEvict) => outcome = Return(<<>>)
    /\ MustEvict =>
          /\ outcome.exc = "None"
          /\ OldestFirst(Min(call.needed, call.resp.content.count))

\* C4's case: a full operator (120 designs) needing 10 slots got 10 headers.
C4_Witness ==
    /\ MustEvict
    /\ call.needed = 10
    /\ call.resp.content.count = MAX_DESIGNS
    /\ outcome.exc = "None"
    /\ Len(outcome.val) = 10
    /\ outcome.val[1].created_at < outcome.val[10].created_at

(***************************************************************************)
(* The design geometry catalog (src/acnh/designs/encode.py).               *)
(***************************************************************************)
\* format.WIDTH, format.HEIGHT and format.SIZE: the standard layer size
STANDARD_WIDTH == 32

STANDARD_HEIGHT == 32

STANDARD == <<STANDARD_WIDTH, STANDARD_HEIGHT>>

\* format.PALETTE_SIZE
PALETTE_SIZE == 15

Layer(name, size) == [name |-> name, size |-> size]

LayerCorrespondence(internal_idx, external_name, internal_pos, external_pos, dimensions) ==
    [internal_idx |-> internal_idx, external_name |-> external_name,
     internal_pos |-> internal_pos, external_pos |-> external_pos,
     dimensions |-> dimensions]

\* str(i), for the indices the codec names layers and palette entries by
Str(i) ==
    << "0", "1", "2", "3", "4", "5", "6", "7", "8", "9",
       "10", "11", "12", "13", "14", "15", "16", "17", "18", "19" >>[i + 1]

\* LayerMeta.__mul__: Layer * x
LayerTimes(x) == [i \in 1..x |-> Layer(Str(i - 1), STANDARD)]

SHORT_SLEEVE == <<22, 13>>

LONG_SLEEVE == <<22, 22>>

WIDE_SLEEVE == <<30, 22>>

LONG_BODY == <<32, 41>>

STANDARD_BODY_LAYERS == <<Layer("back", STANDARD), Layer("front", STANDARD)>>

LONG_BODY_LAYERS == <<Layer("back", LONG_BODY), Layer("front", LONG_BODY)>>

SHORT_SLEEVE_LAYERS ==
    <<Layer("right-sleeve", SHORT_SLEEVE), Layer("left-sleeve", SHORT_SLEEVE)>>

LONG_SLEEVE_LAYERS ==
    <<Layer("right-sleeve", LONG_SLEEVE), Layer("left-sleeve", LONG_SLEEVE)>>

WIDE_SLEEVE_LAYERS ==
    <<Layer("right-sleeve", WIDE_SLEEVE), Layer("left-sleeve", WIDE_SLEEVE)>>

SHORT_SLEEVE_CORRESPONDENCE ==
    << LayerCorrespondence(2, "right-sleeve", <<5, 10>>, <<0, 0>>, SHORT_SLEEVE),
       LayerCorrespondence(3, "left-sleeve", <<5, 10>>, <<0, 0>>, SHORT_SLEEVE) >>

LONG_SLEEVE_CORRESPONDENCE ==
    << LayerCorrespondence(2, "right-sleeve", <<1, 10>>, <<0, 0>>, LONG_SLEEVE),
       LayerCorrespondence(3, "left-sleeve", <<1, 10>>, <<0, 0>>, LONG_SLEEVE) >>

WIDE_SLEEVE_CORRESPONDENCE ==
    << LayerCorrespondence(2, "right-sleeve", <<1, 10>>, <<0, 0>>, WIDE_SLEEVE),
       LayerCorrespondence(3, "left-sleeve", <<1, 10>>, <<0, 0>>, WIDE_SLEEVE) >>

STANDARD_BODY_CORRESPONDENCE ==
    << LayerCorrespondence(0, "back", <<0, 0>>, <<0, 0>>, STANDARD),
       LayerCorrespondence(1, "front", <<0, 0>>, <<0, 0>>, STANDARD) >>

LONG_BODY_CORRESPONDENCE ==
    << LayerCorrespondence(0, "front", <<0, 0>>, <<0, 0>>, STANDARD),
       LayerCorrespondence(2, "front", <<0, 0>>, <<0, 32>>, <<32, 9>>),
       LayerCorrespondence(1, "back", <<0, 0>>, <<0, 0>>, STANDARD),
       LayerCorrespondence(3, "back", <<0, 0>>, <<0, 32>>, <<32, 9>>) >>

\* A class body: the attributes it assigns.  has names those of
\* internal_layers and correspondence that the class, or a class it
\* inherits from, has when __init_subclass__ looks (hasattr).
ClassBody(type_code, external_layers, has, internal_layers, correspondence) ==
    [type_code |-> type_code, external_layers |-> external_layers, has |-> has,
     internal_layers |-> internal_layers, correspondence |-> correspondence]

Both == {"internal_layers", "correspondence"}

BasicDesign == ClassBody(99, <<Layer("0", STANDARD)>>, {}, <<>>, <<>>)

TankTop == ClassBody(102, STANDARD_BODY_LAYERS, {}, <<>>, <<>>)

ShortSleeveTee ==
    ClassBody(101, STANDARD_BODY_LAYERS \o SHORT_SLEEVE_LAYERS, Both, LayerTimes(4),
              STANDARD_BODY_CORRESPONDENCE \o SHORT_SLEEVE_CORRESPONDENCE)

LongSleeveDressShirt ==
    ClassBody(100, STANDARD_BODY_LAYERS \o LONG_SLEEVE_LAYERS, Both, LayerTimes(4),
              STANDARD_BODY_CORRESPONDENCE \o LONG_SLEEVE_CORRESPONDENCE)

SleevelessDress ==
    ClassBody(107, LONG_BODY_LAYERS, Both, LayerTimes(4), LONG_BODY_CORRESPONDENCE)

Coat ==
    ClassBody(105, LONG_BODY_LAYERS \o LONG_SLEEVE_LAYERS, {"correspondence"}, <<>>,
              LONG_BODY_CORRESPONDENCE \o LONG_SLEEVE_CORRESPONDENCE)

ShortSleeveDress ==
    ClassBody(106, LONG_BODY_LAYERS \o SHORT_SLEEVE_LAYERS, Both, LayerTimes(4),
              LONG_BODY_CORRESPONDENCE \o SHORT_SLEEVE_CORRESPONDENCE)

Robe ==
    ClassBody(111, LONG_BODY_LAYERS \o WIDE_SLEEVE_LAYERS, Both, LayerTimes(4),
              LONG_BODY_CORRESPONDENCE \o WIDE_SLEEVE_CORRESPONDENCE)

BrimmedCap ==
    ClassBody(112,
              <<Layer("front", <<44, 41>>), Layer("back", <<20, 44>>), Layer("brim", <<44, 21>>)>>,
              Both, LayerTimes(4),
              << LayerCorrespondence(0, "front", <<0, 0>>, <<0, 0>>, STANDARD),
                 LayerCorrespondence(1, "front", <<0, 0>>, <<32, 0>>, <<12, 32>>),
                 LayerCorrespondence(2, "front", <<0, 0>>, <<0, 32>>, <<32, 9>>),
                 LayerCorrespondence(3, "front", <<0, 0>>, <<32, 32>>, <<12, 9>>),
                 LayerCorrespondence(1, "back", <<12, 0>>, <<0, 0>>, <<20, 32>>),
                 LayerCorrespondence(3, "back", <<12, 0>>, <<0, 32>>, <<20, 12>>),
                 LayerCorrespondence(2, "brim", <<0, 11>>, <<0, 0>>, <<32, 21>>),
                 LayerCorrespondence(3, "brim", <<0, 11>>, <<32, 0>>, <<12, 21>>) >>)

KnitCap ==
    ClassBody(113, <<Layer("cap", <<64, 53>>)>>, Both,
              <<Layer("0", STANDARD), Layer("1", STANDARD),
                Layer("2", <<32, 21>>), Layer("3", <<32, 21>>)>>,
              << LayerCorrespondence(0, "cap", <<0, 0>>, <<0, 0>>, STANDARD),
                 LayerCorrespondence(0, "cap", <<0, 0>>, <<32, 0>>, STANDARD),
                 LayerCorrespondence(0, "cap", <<0, 0>>, <<0, 32>>, STANDARD),
                 LayerCorrespondence(0, "cap", <<0, 0>>, <<32, 32>>, STANDARD) >>)

BrimmedHat ==
    ClassBody(114,
              <<Layer("top", <<36, 36>>), Layer("middle", <<64, 19>>), Layer("bottom", <<64, 9>>)>>,
              Both, LayerTimes(4),
              << LayerCorrespondence(0, "top", <<14, 0>>, <<0, 0>>, <<18, 32>>),
                 LayerCorrespondence(1, "top", <<0, 0>>, <<18, 0>>, <<18, 32>>),
                 LayerCorrespondence(2, "top", <<14, 0>>, <<0, 32>>, <<18, 4>>),
                 LayerCorrespondence(3, "top", <<0, 0>>, <<18, 32>>, <<18, 4>>),
                 LayerCorrespondence(2, "middle", <<0, 4>>, <<0, 0>>, <<32, 19>>),
                 LayerCorrespondence(3, "middle", <<0, 4>>, <<32, 0>>, <<32, 19>>),
                 LayerCorrespondence(2, "bottom", <<0, 23>>, <<0, 0>>, <<32, 9>>),
                 LayerCorrespondence(3, "bottom", <<0, 23>>, <<32, 0>>, <<32, 9>>) >>)

\* Design.__init_subclass__: the class attributes once the class is made
InitSubclass(cls) ==
    LET internal_layers ==
            IF "internal_layers" \notin cls.has
            THEN [i \in 1..Len(cls.external_layers) |->
                     Layer(Str(i - 1), cls.external_layers[i].size)]
            ELSE cls.internal_layers
        one_to_one == "correspondence" \notin cls.has
    IN  [type_code |-> cls.type_code,
         external_layers |-> cls.external_layers,
         internal_layers |-> internal_layers,
         correspondence |-> IF one_to_one THEN <<>> ELSE cls.correspondence,
         external_layer_names |->
             [i \in 1..Len(cls.external_layers) |-> cls.external_layers[i].name],
         one_to_one |-> one_to_one]

\* Design.__init_subclass__ for a class made from a registered class with
\* only a type_code in its body: every attribute is found on the base.
Inherit(base, type_code) == [InitSubclass(base) EXCEPT !.type_code = type_code]

DesignTypeNames ==
    {"BasicDesign", "TankTop", "ShortSleeveTee", "LongSleeveDressShirt", "Sweater",
     "Hoodie", "SleevelessDress", "Coat", "ShortSleeveDress", "LongSleeveDress",
     "RoundDress", "BalloonHemDress", "Robe", "BrimmedCap", "KnitCap", "BrimmedHat"}

\* Design.design_types: the registered classes by class name
DesignTypes ==
    [n \in DesignTypeNames |->
        CASE n = "BasicDesign" -> InitSubclass(BasicDesign)
          [] n = "TankTop" -> InitSubclass(TankTop)
          [] n = "ShortSleeveTee" -> InitSubclass(ShortSleeveTee)
          [] n = "LongSleeveDressShirt" -> InitSubclass(LongSleeveDressShirt)
          [] n = "Sweater" -> Inherit(LongSleeveDressShirt, 103)
          [] n = "Hoodie" -> Inherit(LongSleeveDressShirt, 104)
          [] n = "SleevelessDress" -> InitSubclass(SleevelessDress)
          [] n = "Coat" -> InitSubclass(Coat)
          [] n = "ShortSleeveDress" -> InitSubclass(ShortSleeveDress)
          [] n = "LongSleeveDress" -> Inherit(Coat, 108)
          [] n = "RoundDress" -> Inherit(ShortSleeveDress, 110)
          [] n = "BalloonHemDress" -> Inherit(ShortSleeveDress, 109)
          [] n = "Robe" -> InitSubclass(Robe)
          [] n = "BrimmedCap" -> InitSubclass(BrimmedCap)
          [] n = "KnitCap" -> InitSubclass(KnitCap)
          [] n = "BrimmedHat" -> InitSubclass(BrimmedHat)]

(***************************************************************************)
(* Images.  A pixel is its four channel bytes <<r, g, b, a>>; an image is  *)
(* its size <<width, height>> and its pixels in row-major order, the pixel *)
(* at (x, y) being px[y * width + x].                                      *)
(***************************************************************************)
TRANSPARENT == <<0, 0, 0, 0>>

Image(size, px) == [size |-> size, px |-> px]

Width(img) == img.size[1]

Height(img) == img.size[2]

PixelAt(img, x, y) == img.px[y * Width(img) + x]

\* Layer.as_wand: a blank image of the layer's size, fully transparent
as_wand(layer) ==
    Image(layer.size, [i \in 0..(layer.size[1] * layer.size[2] - 1) |-> TRANSPARENT])

\* image[x0:x1, y0:y1]: the crop, cut at the image's edges
Crop(img, x0, y0, x1, y1) ==
    LET l == Min(x0, Width(img))
        t == Min(y0, Height(img))
        w == Min(x1, Width(img)) - l
        h == Min(y1, Height(img)) - t
    IN  Image(<<w, h>>,
              [i \in 0..(w * h - 1) |-> PixelAt(img, l + (i % w), t + (i \div w))])

\* One pixel laid over another (the library's default composite operator),
\* for a pixel that is opaque or fully transparent.
Over(s, d) == IF s[4] = 0 THEN d ELSE s

\* dst.composite(src, left, top)
Composite(dst, src, left, top) ==
    Image(dst.size,
          [i \in DOMAIN dst.px |->
              LET sx == (i % Width(dst)) - left
                  sy == (i \div Width(dst)) - top
              IN  IF sx >= 0 /\ sx < Width(src) /\ sy >= 0 /\ sy < Height(src)
                  THEN Over(PixelAt(src, sx, sy), dst.px[i])
                  ELSE dst.px[i]])

(***************************************************************************)
(* A design: its type and its layer images, a dict kept as the sequence of *)
(* its items in insertion order.                                           *)
(***************************************************************************)
Design(type, layers) == [type |-> type, layer_images |-> layers]

Item(name, image) == [name |-> name, image |-> image]

\* The keys of a dict
Keys(d) == {d[i].name : i \in 1..Len(d)}

\* d[name], for a key of d
Lookup(d, name) == d[CHOOSE i \in 1..Len(d) : d[i].name = name].image

\* The error kinds encode.py declares for itself.
InvalidLayerNameError(design) ==
    [exc |-> "InvalidLayerNameError", code |-> 37, http_status |-> HTTP_BAD_REQUEST,
     valid_layer_names |-> DesignTypes[design.type].external_layer_names]

MissingLayerError(layer) ==
    [exc |-> "MissingLayerError", code |-> 38, http_status |-> HTTP_BAD_REQUEST,
     layer |-> layer]

InvalidLayerSizeError(name) ==
    [exc |-> "InvalidLayerSizeError", code |-> 28, args |-> <<name>>]

InvalidPaletteError ==
    [exc |-> "InvalidPaletteError", code |-> 27, http_status |-> HTTP_BAD_REQUEST]

\* Layer.validate(image)
Layer_validate(layer, image) ==
    IF image.size # layer.size THEN InvalidLayerSizeError(layer.name) ELSE Return("None")

\* The loop of Design.validate over the declared layers from the i-th on.
RECURSIVE ValidateLayers(_, _, _)
ValidateLayers(design, layers, i) ==
    IF i > Len(layers) THEN Return("None")
    ELSE IF layers[i].name \notin Keys(design.layer_images)
         THEN MissingLayerError(layers[i])
         ELSE LET v == Layer_validate(layers[i], Lookup(design.layer_images, layers[i].name))
              IN  IF v.exc # "None" THEN v ELSE ValidateLayers(design, layers, i + 1)

\* A validate that looks for missing layers first and at the sizes after.
Design_validate_missing_first(design) ==
    LET cls == DesignTypes[design.type]
        missing == {i \in 1..Len(cls.external_layers) :
                       cls.external_layers[i].name \notin Keys(design.layer_images)}
        v == ValidateLayers(design, cls.external_layers, 1)
    IN  IF missing # {}
        THEN MissingLayerError(cls.external_layers[CHOOSE i \in missing : \A j \in missing : i <= j])
        ELSE IF v.exc # "None" THEN v
        ELSE IF Len(design.layer_images) > Len(cls.external_layers)
             THEN InvalidLayerNameError(design)
             ELSE Return("None")

\* Design.validate()
Design_validate(design) ==
    LET cls == DesignTypes[design.type]
        v == ValidateLayers(design, cls.external_layers, 1)
    IN  IF v.exc # "None" THEN v
        ELSE IF Len(design.layer_images) > Len(cls.external_layers)
             THEN InvalidLayerNameError(design)
             ELSE Return("None")

(***************************************************************************)
(* Design.validate on its own: a design is drawn, each declared layer of   *)
(* its type supplied at the declared size, supplied at another size or not *)
(* supplied, with or without a layer of an undeclared name, the layers     *)
(* inserted in declaration order or in the reverse order.                  *)
(***************************************************************************)
\* An image of one colour.
Solid(size, pixel) == Image(size, [i \in 0..(size[1] * size[2] - 1) |-> pixel])

OPAQUE_WHITE == <<127, 255, 255, 255>>

ValidatedTypes == {"BasicDesign", "TankTop", "ShortSleeveTee"}

\* The items of a design of the type: how[i] says how the i-th declared
\* layer is supplied.
SuppliedLayers(type, how, extra, reverse) ==
    LET layers == DesignTypes[type].external_layers
        all == [i \in 1..(Len(layers) + 1) |->
                   IF i > Len(layers) THEN Item("hood", Solid(STANDARD, OPAQUE_WHITE))
                   ELSE Item(layers[i].name,
                             Solid(IF how[i] = "ok" THEN layers[i].size
                                   ELSE <<layers[i].size[1], layers[i].size[2] + 1>>,
                                   OPAQUE_WHITE))]
        Supplied(it) ==
            \/ it.name = "hood" /\ extra
            \/ \E i \in 1..Len(layers) : layers[i].name = it.name /\ how[i] # "absent"
        kept == SelectSeq(all, Supplied)
    IN  IF reverse THEN Reversed(kept) ELSE kept

ValidateDesigns ==
    UNION { { Design(type, SuppliedLayers(type, how, extra, reverse)) :
                how \in [1..Len(DesignTypes[type].external_layers) -> {"ok", "bad", "absent"}],
                extra \in BOOLEAN, reverse \in BOOLEAN } :
            type \in ValidatedTypes }

InitValidate ==
    /\ call \in {[op |-> "validate", design |-> d] : d \in ValidateDesigns}
    /\ requests = <<>>
    /\ outcome = Pending

\* design.validate()
Validate ==
    /\ call.op = "validate"
    /\ outcome = Pending
    /\ outcome' = Design_validate(call.design)
    /\ UNCHANGED <<call, requests>>

NextValidate == Validate

SpecValidate == InitValidate /\ [][NextValidate]_vars

Validated == call.op = "validate" /\ outcome # Pending

DeclaredLayers == DesignTypes[call.design.type].external_layers

IsMissing(i) == DeclaredLayers[i].name \notin Keys(call.design.layer_images)

IsMisSized(i) ==
    /\ ~IsMissing(i)
    /\ Lookup(call.design.layer_images, DeclaredLayers[i].name).size # DeclaredLayers[i].size

HasUndeclared ==
    \E n \in Keys(call.design.layer_images) :
        \A i \in 1..Len(DeclaredLayers) : DeclaredLayers[i].name # n

\* The first of a set of indices.
First(S) == CHOOSE i \in S : \A j \in S : i <= j

MissingSet == {i \in 1..Len(DeclaredLayers) : IsMissing(i)}

MisSizedSet == {i \in 1..Len(DeclaredLayers) : IsMisSized(i)}

RaisedNameError ==
    /\ outcome.exc = "InvalidLayerNameError"
    /\ outcome.valid_layer_names =
           [i \in 1..Len(DeclaredLayers) |-> DeclaredLayers[i].name]

\* C7 as stated: a missing declared layer raises MissingLayerError with the
\* first missing layer; else a mis-sized image raises InvalidLayerSizeError;
\* else an undeclared layer name raises InvalidLayerNameError listing the
\* declared names; else validate returns.
C7_MissingFirst ==
    Validated =>
        IF MissingSet # {}
        THEN outcome.exc = "MissingLayerError" /\ outcome.layer = DeclaredLayers[First(MissingSet)]
        ELSE IF MisSizedSet # {} THEN outcome.exc = "InvalidLayerSizeError"
        ELSE IF HasUndeclared THEN RaisedNameError
        ELSE outcome = Return("None")

\* C7, amended: validate goes through the declared layers in declaration
\* order and stops at the first that is missing (MissingLayerError with
\* that layer) or mis-sized (InvalidLayerSizeError); so a missing layer is
\* reported only if no layer declared before it is supplied at a wrong
\* size.  With every declared layer present at the right size, an
\* undeclared name raises InvalidLayerNameError listing exactly the declared
\* names, and otherwise validate returns.
C7_Validate ==
    Validated =>
        IF MissingSet \cup MisSizedSet # {}
        THEN LET f == First(MissingSet \cup MisSizedSet)
             IN  IF IsMissing(f)
                 THEN outcome.exc = "MissingLayerError" /\ outcome.layer = DeclaredLayers[f]
                 ELSE outcome.exc = "InvalidLayerSizeError"
        ELSE IF HasUndeclared THEN RaisedNameError
        ELSE outcome = Return("None")

\* C7's case: a tee without its left sleeve, the other layers as declared,
\* was refused for the missing sleeve.
C7_Witness ==
    /\ Validated
    /\ call.design.type = "ShortSleeveTee"
    /\ MissingSet = {4}
    /\ MisSizedSet = {}
    /\ outcome.exc = "MissingLayerError"
    /\ outcome.layer = Layer("left-sleeve", SHORT_SLEEVE)

(***************************************************************************)
(* internalize and externalize: the block copies between the external and  *)
(* the internal layers.                                                    *)
(***************************************************************************)
\* A copy that takes the block at the destination's position and puts it at
\* the source's.
copy_swapped(dst, src, dst_position, src_position, dimensions) ==
    Composite(dst,
              Crop(src, dst_position[1], dst_position[2],
                   dst_position[1] + dimensions[1], dst_position[2] + dimensions[2]),
              src_position[1], src_position[2])

\* Design.copy(dst, src, dst_position, src_position, dimensions): dst after
\* the composite
copy(dst, src, dst_position, src_position, dimensions) ==
    Composite(dst,
              Crop(src, src_position[1], src_position[2],
                   src_position[1] + dimensions[1], src_position[2] + dimensions[2]),
              dst_position[1], dst_position[2])

\* The loop of internalize over the correspondence entries from the i-th on.
RECURSIVE InternalizeLoop(_, _, _)
InternalizeLoop(design, out, i) ==
    LET corr == DesignTypes[design.type].correspondence
    IN  IF i > Len(corr) THEN out
        ELSE LET c == corr[i]
                 dst == out[c.internal_idx + 1]
                 src == Lookup(design.layer_images, c.external_name)
             IN  InternalizeLoop(design,
                     [out EXCEPT ![c.internal_idx + 1] =
                         copy(dst, src, c.internal_pos, c.external_pos, c.dimensions)],
                     i + 1)

\* Design.internalize(): the list of internal layer images
internalize(design) ==
    LET cls == DesignTypes[design.type]
    IN  IF cls.one_to_one
        THEN [i \in 1..Len(design.layer_images) |-> design.layer_images[i].image]
        ELSE InternalizeLoop(design,
                 [i \in 1..Len(cls.internal_layers) |-> as_wand(cls.internal_layers[i])], 1)

\* The loop of externalize over the correspondence entries from the i-th on;
\* out is the dict of the external images, in the order of external_layers.
RECURSIVE ExternalizeLoop(_, _, _, _)
ExternalizeLoop(type, internal_layers, out, i) ==
    LET corr == DesignTypes[type].correspondence
    IN  IF i > Len(corr) THEN out
        ELSE LET c == corr[i]
                 k == CHOOSE j \in 1..Len(out) : out[j].name = c.external_name
                 dst == out[k].image
                 src == internal_layers[c.internal_idx + 1]
             IN  ExternalizeLoop(type, internal_layers,
                     [out EXCEPT ![k].image =
                         copy(dst, src, c.external_pos, c.internal_pos, c.dimensions)],
                     i + 1)

\* cls.externalize(internal_layers): the design of the class
externalize(type, internal_layers) ==
    LET cls == DesignTypes[type]
    IN  IF cls.one_to_one
        THEN Design(type, [i \in 1..Len(internal_layers) |->
                              Item(cls.external_layers[i].name, internal_layers[i])])
        ELSE Design(type,
                 ExternalizeLoop(type, internal_layers,
                     [i \in 1..Len(cls.external_layers) |->
                         Item(cls.external_layers[i].name, as_wand(cls.external_layers[i]))],
                     1))

(***************************************************************************)
(* The image codec: the palette and the packed pixels.                     *)
(***************************************************************************)
\* image.export_pixels() as bytes: the channels of the pixels in row-major order
export_pixels(image) ==
    LET n == Width(image) * Height(image)
    IN  [k \in 1..(4 * n) |-> image.px[(k - 1) \div 4][((k - 1) % 4) + 1]]

\* LITTLE_ENDIAN_UINT32.unpack(px), the struct being '>L'
LITTLE_ENDIAN_UINT32_unpack(px) ==
    ((px[1] * 256 + px[2]) * 256 + px[3]) * 256 + px[4]

\* Range of a sequence
Range(s) == {s[i] : i \in 1..Len(s)}

\* gen_palette's dict is kept as the sequence of its keys in insertion
\* order, the value of a key being its place less one (color_i counts the
\* insertions).  The keys after the loop body has run from the dict keys
\* over the colours of colors, which are distinct:
\*   if color not in palette: palette[color] = color_i; color_i += 1
PaletteInsert(keys, colors) ==
    LET IsNew(color) == color \notin Range(keys)
    IN  keys \o SelectSeq(colors, IsNew)

\* gen_palette's inner loop over the pixels lo..hi of one buffer, run from
\* an empty dict: the keys inserted, in order (the range is halved so that
\* long buffers do not nest deeply).
RECURSIVE PaletteOfPixels(_, _, _)
PaletteOfPixels(pixels, lo, hi) ==
    IF lo > hi THEN <<>>
    ELSE IF lo = hi THEN <<LITTLE_ENDIAN_UINT32_unpack(pixels[lo])>>
    ELSE LET mid == (lo + hi) \div 2
         IN  PaletteInsert(PaletteOfPixels(pixels, lo, mid),
                           PaletteOfPixels(pixels, mid + 1, hi))

\* gen_palette's outer loop over the buffers from the i-th on.
RECURSIVE PaletteOfBuffers(_, _, _)
PaletteOfBuffers(pxss, i, keys) ==
    IF i > Len(pxss) THEN keys
    ELSE LET pixels == chunked(pxss[i], 4)
         IN  PaletteOfBuffers(pxss, i + 1,
                 PaletteInsert(keys, PaletteOfPixels(pixels, 1, Len(pixels))))

\* The dict of the keys: color -> color_i at its insertion
PaletteDict(keys) ==
    [color \in Range(keys) |-> (CHOOSE i \in 1..Len(keys) : keys[i] = color) - 1]

\* A gen_palette that lets one colour more through.
gen_palette_off_by_one(pxss) ==
    LET keys == PaletteOfBuffers(pxss, 1, <<>>)
    IN  IF Len(keys) > PALETTE_SIZE + 1
        THEN InvalidPaletteError
        ELSE Return(PaletteDict(keys))

\* gen_palette(pxss)
gen_palette(pxss) ==
    LET keys == PaletteOfBuffers(pxss, 1, <<>>)
    IN  IF Len(keys) > PALETTE_SIZE
        THEN InvalidPaletteError
        ELSE Return(PaletteDict(keys))

\* a | b on non-negative integers
RECURSIVE BitOr(_, _)
BitOr(a, b) ==
    IF a = 0 THEN b
    ELSE IF b = 0 THEN a
    ELSE Max(a % 2, b % 2) + 2 * BitOr(a \div 2, b \div 2)

\* a << n
ShiftLeft(a, n) == a * 2^n

\* An encode_image that puts the first pixel of a pair in the high nibble.
encode_image_first_high(palette, pxs) ==
    LET pairs == chunked(pxs, 8)
    IN  [k \in 1..Len(pairs) |->
            LET px1 == LITTLE_ENDIAN_UINT32_unpack(SubSeq(pairs[k], 1, 4))
                px2 == LITTLE_ENDIAN_UINT32_unpack(SubSeq(pairs[k], 5, 8))
            IN  BitOr(ShiftLeft(palette[px1], 4), palette[px2])]

\* encode_image(palette, pxs), for a buffer of an even number of pixels
\* (every internal layer of the catalog has one): the bytes written
encode_image(palette, pxs) ==
    LET pairs == chunked(pxs, 8)
    IN  [k \in 1..Len(pairs) |->
            LET px1 == LITTLE_ENDIAN_UINT32_unpack(SubSeq(pairs[k], 1, 4))
                px2 == LITTLE_ENDIAN_UINT32_unpack(SubSeq(pairs[k], 5, 8))
            IN  BitOr(ShiftLeft(palette[px2], 4), palette[px1])]

\* The two ids of mAuthor are written as decimal strings.
DUMMY_EXTRA_METADATA ==
    [mAuthor |-> [mVId |-> "4255292630", mPId |-> "2422107098", mGender |-> 0],
     mFlg |-> 2, mClSet |-> 238]

\* encode_image_data(pxss)
encode_image_data(pxss) ==
    LET p == gen_palette(pxss)
    IN  IF p.exc # "None" THEN p
        ELSE LET palette == p.val
                 layers == [key \in {Str(i - 1) : i \in 1..Len(pxss)} |->
                               encode_image(palette,
                                   pxss[CHOOSE i \in 1..Len(pxss) : Str(i - 1) = key])]
                 mPalette ==
                     [key \in {Str(palette[c]) : c \in DOMAIN palette} \cup {Str(PALETTE_SIZE)} |->
                         IF key = Str(PALETTE_SIZE) THEN 0
                         ELSE CHOOSE c \in DOMAIN palette : Str(palette[c]) = key]
             IN  Return([mPalette |-> mPalette, mData |-> layers,
                         mAuthor |-> DUMMY_EXTRA_METADATA.mAuthor,
                         mFlg |-> DUMMY_EXTRA_METADATA.mFlg,
                         mClSet |-> DUMMY_EXTRA_METADATA.mClSet])

\* encode_pro(design): (was_quantized, img_data)
encode_pro(design) ==
    LET v == Design_validate(design)
        pxss == LET layers == internalize(design)
                IN  [i \in 1..Len(layers) |-> export_pixels(layers[i])]
        palette == gen_palette(pxss)
        img_data == encode_image_data(pxss)
    IN  IF v.exc # "None" THEN v
        ELSE IF palette.exc # "None" THEN palette
        ELSE IF img_data.exc # "None" THEN img_data
        ELSE Return(<<FALSE, img_data.val>>)

(***************************************************************************)
(* encode_image_data on its own: one or two pixel buffers are drawn, of an *)
(* even number of pixels each, their colours cycling through n colours in  *)
(* a drawn order.                                                          *)
(***************************************************************************)
\* The most colours a drawn buffer or design cycles through.
MaxColors == 17

\* The most pixel pairs of a drawn buffer.
MaxPairs == 8

\* The k-th colour of the drawn images: fully transparent, then opaque ones.
Color(k) ==
    IF k = 0 THEN TRANSPARENT
    ELSE <<(7 * k) % 128, (37 * k) % 256, (101 * k) % 256, 255>>

\* A buffer of len pixels, the i-th (from 0) of colour (a * i + b) mod n.
Buffer(len, a, b, n) ==
    [k \in 1..(4 * len) |-> Color((a * ((k - 1) \div 4) + b) % n)[((k - 1) % 4) + 1]]

BufferLists ==
    UNION { { <<Buffer(2 * p, a, 0, n)>>,
              <<Buffer(2 * p, a, 0, n), Buffer(2 * MaxPairs, a, n - 1, n)>>,
              <<Buffer(2 * p, a, 2, n), Buffer(2, 1, 0, n)>> } :
            p \in {1, MaxPairs}, a \in {1, 7}, n \in 1..MaxColors }

InitImageData ==
    /\ call \in {[op |-> "encode_image_data", pxss |-> pxss] : pxss \in BufferLists}
    /\ requests = <<>>
    /\ outcome = Pending

\* encode_image_data(pxss)
EncodeImageData ==
    /\ call.op = "encode_image_data"
    /\ outcome = Pending
    /\ outcome' = encode_image_data(call.pxss)
    /\ UNCHANGED <<call, requests>>

NextImageData == EncodeImageData

SpecImageData == InitImageData /\ [][NextImageData]_vars

\* The colours of the pixels of the j-th buffer of the call, in order.
PixelsOf(j) ==
    [i \in 1..(Len(call.pxss[j]) \div 4) |->
        LITTLE_ENDIAN_UINT32_unpack(SubSeq(call.pxss[j], 4 * i - 3, 4 * i))]

\* The colours of all the pixels of the call: buffers in order, pixels in
\* order.
RECURSIVE PixelsFrom(_)
PixelsFrom(j) ==
    IF j > Len(call.pxss) THEN <<>>
    ELSE SubSeq(PixelsOf(j), 1, Len(PixelsOf(j))) \o PixelsFrom(j + 1)

AllPixels == PixelsFrom(1)

ColorsIn(pixels) == {pixels[i] : i \in 1..Len(pixels)}

ColorsUsed == ColorsIn(AllPixels)

\* Where a colour is first seen in pixels, and how many colours are first
\* seen before it.
FirstSeen(pixels, c) ==
    CHOOSE i \in 1..Len(pixels) :
        pixels[i] = c /\ \A j \in 1..(i - 1) : pixels[j] # c

Rank(pixels, c) ==
    Cardinality({d \in ColorsIn(pixels) : FirstSeen(pixels, d) < FirstSeen(pixels, c)})

\* The index a returned mPalette gives a colour, 15 aside.
IndexOf(mPalette, c) ==
    CHOOSE i \in 0..(PALETTE_SIZE - 1) :
        Str(i) \in DOMAIN mPalette /\ mPalette[Str(i)] = c

ImageDataDone == call.op = "encode_image_data" /\ outcome # Pending

PatternPixel(l, x, y, a, b, base, n) == Color(base + ((a * x + b * y + l) % n))

Pattern(size, l, a, b, base, n) ==
    Image(size, [i \in 0..(size[1] * size[2] - 1) |->
                    PatternPixel(l, i % size[1], i \div size[1], a, b, base, n)])

\* The design of the type with every declared layer at its size, or,
\* short, with its last declared layer left out.
PatternDesign(type, a, b, base, n, reverse, short) ==
    LET layers == DesignTypes[type].external_layers
        items == [l \in 1..(Len(layers) - (IF short THEN 1 ELSE 0)) |->
                     Item(layers[l].name, Pattern(layers[l].size, l, a, b, base, n))]
    IN  Design(type, IF reverse THEN Reversed(items) ELSE items)

Slopes == {<<1, 0>>, <<1, 3>>, <<5, 7>>}

ColorCounts == {1, 2, PALETTE_SIZE - 1, PALETTE_SIZE, PALETTE_SIZE + 1, MaxColors}

EncodedDesigns ==
    { PatternDesign(type, s[1], s[2], base, n, FALSE, FALSE) :
        type \in {"BasicDesign", "TankTop", "ShortSleeveTee"},
        s \in Slopes, base \in {0, 1}, n \in ColorCounts }
    \cup { PatternDesign(type, 1, 3, 1, PALETTE_SIZE + 1, FALSE, TRUE) :
             type \in {"TankTop", "ShortSleeveTee"} }

InternalizedDesigns ==
    { PatternDesign(type, s[1], s[2], base, n, reverse, FALSE) :
        type \in {"TankTop", "ShortSleeveTee"},
        s \in Slopes, base \in {0, 1}, n \in {2, MaxColors}, reverse \in BOOLEAN }
    \cup { PatternDesign("KnitCap", s[1], s[2], base, MaxColors, FALSE, FALSE) :
             s \in Slopes, base \in {0, 1} }

InitEncode ==
    /\ call \in {[op |-> "encode_pro", design |-> d] : d \in EncodedDesigns}
                \cup {[op |-> "internalize", design |-> d] : d \in InternalizedDesigns}
    /\ requests = <<>>
    /\ outcome = Pending

\* encode_pro(design)
EncodePro ==
    /\ call.op = "encode_pro"
    /\ outcome = Pending
    /\ outcome' = encode_pro(call.design)
    /\ UNCHANGED <<call, requests>>

\* design.internalize()
Internalize ==
    /\ call.op = "internalize"
    /\ outcome = Pending
    /\ outcome' = Return(internalize(call.design))
    /\ UNCHANGED <<call, requests>>

\* type(design).externalize(internal_layers), on the layers internalize
\* returned; the call keeps the design they came from.
Externalize ==
    /\ call.op = "internalize"
    /\ outcome # Pending
    /\ call' = [op |-> "externalize", design |-> call.design,
                internal_layers |-> outcome.val]
    /\ outcome' = Return(externalize(call.design.type, outcome.val))
    /\ UNCHANGED requests

NextEncode == EncodePro \/ Internalize \/ Externalize

SpecEncode == InitEncode /\ [][NextEncode]_vars

\* The colours of the layers a design supplies.
SuppliedColors(design) ==
    UNION { {design.layer_images[l].image.px[i] : i \in DOMAIN design.layer_images[l].image.px} :
            l \in 1..Len(design.layer_images) }

EncodeProDone == call.op = "encode_pro" /\ outcome # Pending

\* C8: encode_pro on a valid design whose supplied layers hold 16 or more
\* distinct colours between them raises the palette error of code 208 and
\* returns no image data.
C8_PaletteOverflow ==
    (/\ EncodeProDone
     /\ Design_validate(call.design).exc = "None"
     /\ Cardinality(SuppliedColors(call.design)) >= PALETTE_SIZE + 1) =>
        /\ outcome.exc = "InvalidPaletteError"
        /\ outcome.code = 208

Externalized == call.op = "externalize" /\ outcome # Pending

\* The pixels a correspondence entry covers in its external layer.
Covered(c) ==
    {<<c.external_pos[1] + dx, c.external_pos[2] + dy>> :
        dx \in 0..(c.dimensions[1] - 1), dy \in 0..(c.dimensions[2] - 1)}

\* C10: for a ShortSleeveTee, every pixel of an external layer that a
\* correspondence entry covers is, after internalize and externalize, the
\* pixel the design had there.
C10_RoundTrip ==
    (Externalized /\ call.design.type = "ShortSleeveTee") =>
        LET corr == DesignTypes["ShortSleeveTee"].correspondence
        IN  \A k \in 1..Len(corr) :
                LET was == Lookup(call.design.layer_images, corr[k].external_name)
                    now == Lookup(outcome.val.layer_images, corr[k].external_name)
                IN  /\ now.size = was.size
                    /\ \A p \in Covered(corr[k]) :
                          PixelAt(now, p[1], p[2]) = PixelAt(was, p[1], p[2])

\* C10's case: a tee of seventeen colours, its layers inserted sleeves
\* first, came back from the internal layers, the far corner of the left
\* sleeve opaque and unlike the near corner.
C10_Witness ==
    /\ Externalized
    /\ call.design.type = "ShortSleeveTee"
    /\ call.design.layer_images[1].name = "left-sleeve"
    /\ Cardinality(SuppliedColors(call.design)) = MaxColors
    /\ LET now == Lookup(outcome.val.layer_images, "left-sleeve")
       IN  /\ PixelAt(now, 21, 12)[4] = 255
           /\ PixelAt(now, 21, 12) # PixelAt(now, 0, 0)
           /\ PixelAt(now, 21, 12) = PixelAt(call.design.layer_images[1].image, 21, 12)

\* The design of the call was internalized: internalize has returned, or
\* externalize has been called on what it returned.
Internalized ==
    \/ call.op = "internalize" /\ outcome # Pending
    \/ call.op = "externalize"

\* The internal layers internalize returned.
InternalLayersOut ==
    IF call.op = "externalize" THEN call.internal_layers ELSE outcome.val

\* Whether an image has no pixel that is not fully transparent.
IsBlank(img) == \A i \in DOMAIN img.px : img.px[i][4] = 0

\* C13: internalize fills slot k of a KnitCap from the quadrant of the cap
\* image at (0,0), (32,0), (0,32) and (32,32) for k = 0, 1, 2, 3, and leaves
\* no slot blank when the cap image is fully opaque.
C13_KnitCapQuadrants ==
    (Internalized /\ call.design.type = "KnitCap") =>
        LET cap == Lookup(call.design.layer_images, "cap")
            slots == InternalLayersOut
        IN  /\ Len(slots) = 4
            /\ \A k \in 0..3 :
                  LET slot == slots[k + 1]
                      qx == (k % 2) * STANDARD_WIDTH
                      qy == (k \div 2) * STANDARD_HEIGHT
                  IN  \A x \in 0..(Width(slot) - 1) :
                          \A y \in 0..(Min(Height(slot), Height(cap) - qy) - 1) :
                              PixelAt(slot, x, y) = PixelAt(cap, qx + x, qy + y)
            /\ (\A i \in DOMAIN cap.px : cap.px[i][4] = 255) =>
                  \A k \in 1..4 : ~IsBlank(slots[k])

\* C14: internalize of a TankTop returns the image supplied for "back" and
\* then the image supplied for "front", in whatever order the caller put
\* them into the layer mapping.
C14_DeclaredOrder ==
    (Internalized /\ call.design.type = "TankTop") =>
        LET layers == DesignTypes["TankTop"].external_layers
        IN  /\ Len(InternalLayersOut) = Len(layers)
            /\ \A i \in 1..Len(layers) :
                  InternalLayersOut[i] = Lookup(call.design.layer_images, layers[i].name)

(***************************************************************************)
(* The error taxonomy (src/acnh/errors.py).  A class is the classes it was *)
(* made from, the names its body assigns and the methods its body defines; *)
(* a class that a later class statement of the same name replaces in the   *)
(* module is kept under its name and line, for the classes made from it.   *)
(***************************************************************************)
HTTP_UNAUTHORIZED == 401

HTTP_REQUEST_ENTITY_TOO_LARGE == 413

\* format.BYTES_PER_PIXEL
BYTES_PER_PIXEL == 4

ClassStatement(bases, attrs, methods) ==
    [bases |-> bases, attrs |-> attrs, methods |-> methods]

\* An f-string or str.format: the template and what goes into it.
Format(template, args) == [template |-> template, args |-> args]

ErrorClassNames ==
    {"Exception", "ACNHError", "InvalidFormatError", "DodoCodeError",
     "UnknownDodoCodeError", "InvalidDodoCodeError", "ImageError", "DesignError",
     "UnknownDesignCodeError", "InvalidDesignCodeError", "UnknownAuthorIdError",
     "InvalidScaleFactorError", "InvalidAuthorIdError", "InvalidProArgument",
     "InvalidDesignError", "InvalidPaletteError", "InvalidLayerSizeError:104",
     "CannotScaleThumbnailError", "UnknownImageIdError", "InvalidLayerIndexError",
     "DeletionDeniedError", "InvalidImageError:134", "SingleLayerRequired",
     "InvalidLayerSizeError", "TiledImageTooBigError", "InvalidImageArgument",
     "InvalidLayerNameError", "InvalidLayerError", "MissingLayerError",
     "InvalidImageError", "InvalidImageIdError", "InvalidImageDeletionToken",
     "AuthorizationError", "MissingUserAgentStringError", "IncorrectAuthorizationError"}

\* The class statements of the module (and Exception), by name; the
\* multiplication sign of two messages is written x.
ErrorClass(k) ==
    CASE
      k = "Exception" ->
          ClassStatement(<<>>,
                [__qualname__ |-> "Exception"],
                {"__init__"})
   []
      k = "ACNHError" ->
          ClassStatement(<<"Exception">>,
                [__qualname__ |-> "ACNHError"],
                {"__int__", "to_dict"})
   []
      k = "InvalidFormatError" ->
          ClassStatement(<<"ACNHError">>,
                [__qualname__ |-> "InvalidFormatError",
                 http_status |-> HTTP_BAD_REQUEST],
                {"to_dict", "validate"})
   []
      k = "DodoCodeError" ->
          ClassStatement(<<"ACNHError">>,
                [__qualname__ |-> "DodoCodeError"],
                {})
   []
      k = "UnknownDodoCodeError" ->
          ClassStatement(<<"DodoCodeError">>,
                [__qualname__ |-> "UnknownDodoCodeError",
                 code |-> 101,
                 http_status |-> HTTP_NOT_FOUND,
                 message |-> "unknown dodo code"],
                {})
   []
      k = "InvalidDodoCodeError" ->
          ClassStatement(<<"DodoCodeError", "InvalidFormatError">>,
                [__qualname__ |-> "InvalidDodoCodeError",
                 code |-> 102,
                 message |-> "invalid dodo code",
                 regex |-> "[A-HJ-NP-Y0-9]{5}"],
                {})
   []
      k = "ImageError" ->
          ClassStatement(<<"ACNHError">>,
                [__qualname__ |-> "ImageError"],
                {})
   []
      k = "DesignError" ->
          ClassStatement(<<"ACNHError">>,
                [__qualname__ |-> "DesignError"],
                {})
   []
      k = "UnknownDesignCodeError" ->
          ClassStatement(<<"DesignError">>,
                [__qualname__ |-> "UnknownDesignCodeError",
                 code |-> UnknownDesignCodeError.code,
                 message |-> "unknown design code",
                 http_status |-> UnknownDesignCodeError.http_status],
                {})
   []
      k = "InvalidDesignCodeError" ->
          ClassStatement(<<"DesignError", "InvalidFormatError">>,
                [__qualname__ |-> "InvalidDesignCodeError",
                 code |-> InvalidDesignCodeError.code,
                 message |-> "invalid design code",
                 DESIGN_CODE_ALPHABET |-> "0123456789BCDFGHJKLMNPQRSTVWXY",
                 regex |-> "[0123456789BCDFGHJKLMNPQRSTVWXY]{4}-[0123456789BCDFGHJKLMNPQRSTVWXY]{4}-[0123456789BCDFGHJKLMNPQRSTVWXY]{4}"],
                {})
   []
      k = "UnknownAuthorIdError" ->
          ClassStatement(<<"DesignError">>,
                [__qualname__ |-> "UnknownAuthorIdError",
                 code |-> 203,
                 message |-> "unknown author ID",
                 http_status |-> HTTP_NOT_FOUND],
                {})
   []
      k = "InvalidScaleFactorError" ->
          ClassStatement(<<"InvalidFormatError">>,
                [__qualname__ |-> "InvalidScaleFactorError",
                 message |-> "invalid scale factor",
                 code |-> 204,
                 regex |-> "[123456]"],
                {})
   []
      k = "InvalidAuthorIdError" ->
          ClassStatement(<<"DesignError", "InvalidFormatError">>,
                [__qualname__ |-> "InvalidAuthorIdError",
                 code |-> 205,
                 message |-> "invalid author ID",
                 regex |-> "\\d{4}-?\\d{4}-?\\d{4}"],
                {})
   []
      k = "InvalidProArgument" ->
          ClassStatement(<<"DesignError", "InvalidFormatError">>,
                [__qualname__ |-> "InvalidProArgument",
                 message |-> "invalid value for pro argument",
                 code |-> 206,
                 regex |-> "[01]|(?:false|true)|[ft]"],
                {})
   []
      k = "InvalidDesignError" ->
          ClassStatement(<<"DesignError">>,
                [__qualname__ |-> "InvalidDesignError",
                 code |-> 207,
                 message |-> "invalid design",
                 http_status |-> HTTP_BAD_REQUEST],
                {})
   []
      k = "InvalidPaletteError" ->
          ClassStatement(<<"DesignError">>,
                [__qualname__ |-> "InvalidPaletteError",
                 code |-> 208,
                 message |-> Format("the combined palette of all layers exceeds {PALETTE_SIZE} colors", <<PALETTE_SIZE>>),
                 http_status |-> HTTP_BAD_REQUEST],
                {})
   []
      k = "InvalidLayerSizeError:104" ->
          ClassStatement(<<"DesignError">>,
                [__qualname__ |-> "InvalidLayerSizeError",
                 code |-> 209,
                 message |-> "layer \"{0.layer.name}\" did not meet the expected size ({0.layer.size[0]}x{0.layer.size[1]})"],
                {})
   []
      k = "CannotScaleThumbnailError" ->
          ClassStatement(<<>>,
                [__qualname__ |-> "CannotScaleThumbnailError",
                 message |-> "cannot scale thumbnails",
                 code |-> 230,
                 http_status |-> HTTP_BAD_REQUEST],
                {})
   []
      k = "UnknownImageIdError" ->
          ClassStatement(<<"ImageError">>,
                [__qualname__ |-> "UnknownImageIdError",
                 code |-> 301,
                 message |-> "unknown image ID",
                 http_status |-> HTTP_NOT_FOUND],
                {})
   []
      k = "InvalidLayerIndexError" ->
          ClassStatement(<<"ACNHError">>,
                [__qualname__ |-> "InvalidLayerIndexError",
                 code |-> 302,
                 message |-> "invalid image layer"],
                {"__init__", "to_dict"})
   []
      k = "DeletionDeniedError" ->
          ClassStatement(<<"ImageError">>,
                [__qualname__ |-> "DeletionDeniedError",
                 code |-> 303,
                 message |-> "you do not own this image",
                 http_status |-> HTTP_UNAUTHORIZED],
                {})
   []
      k = "InvalidImageError:134" ->
          ClassStatement(<<"ImageError">>,
                [__qualname__ |-> "InvalidImageError",
                 http_status |-> HTTP_BAD_REQUEST],
                {})
   []
      k = "SingleLayerRequired" ->
          ClassStatement(<<"InvalidImageError:134">>,
                [__qualname__ |-> "SingleLayerRequired",
                 code |-> 304,
                 message |-> "A single layer was required, but more than one was passed. If tiling was requested, do not pass multiple layers."],
                {})
   []
      k = "InvalidLayerSizeError" ->
          ClassStatement(<<"InvalidImageError:134">>,
                [__qualname__ |-> "InvalidLayerSizeError",
                 code |-> 305,
                 message |-> "One or more layers was not {0.width}x{0.height}."],
                {"__init__", "to_dict"})
   []
      k = "TiledImageTooBigError" ->
          ClassStatement(<<"InvalidImageError:134">>,
                [__qualname__ |-> "TiledImageTooBigError",
                 code |-> 306,
                 message |-> Format("The uploaded image would exceed {MAX_DESIGN_TILES} tiles.", <<"MAX_DESIGN_TILES">>),
                 status |-> HTTP_REQUEST_ENTITY_TOO_LARGE],
                {"validate"})
   []
      k = "InvalidImageArgument" ->
          ClassStatement(<<"ImageError">>,
                [__qualname__ |-> "InvalidImageArgument",
                 code |-> 307,
                 message |-> "missing or invalid required image argument {.argument_name}",
                 http_status |-> HTTP_BAD_REQUEST],
                {"__init__", "to_dict"})
   []
      k = "InvalidLayerNameError" ->
          ClassStatement(<<"DesignError">>,
                [__qualname__ |-> "InvalidLayerNameError",
                 code |-> 308,
                 message |-> "Invalid image layer name.",
                 http_status |-> HTTP_BAD_REQUEST],
                {"__init__", "to_dict"})
   []
      k = "InvalidLayerError" ->
          ClassStatement(<<"DesignError">>,
                [__qualname__ |-> "InvalidLayerError",
                 http_status |-> HTTP_BAD_REQUEST],
                {"__init__", "to_dict"})
   []
      k = "MissingLayerError" ->
          ClassStatement(<<"InvalidLayerError">>,
                [__qualname__ |-> "MissingLayerError",
                 code |-> 309,
                 message |-> "Payload was missing one or more layers. First missing layer: \"{0.layer.name}\"",
                 http_status |-> HTTP_BAD_REQUEST],
                {})
   []
      k = "InvalidImageError" ->
          ClassStatement(<<"ImageError">>,
                [__qualname__ |-> "InvalidImageError",
                 code |-> 310,
                 message |-> "One or more layers submitted represented an invalid image.",
                 status |-> HTTP_BAD_REQUEST],
                {})
   []
      k = "InvalidImageIdError" ->
          ClassStatement(<<"ImageError", "InvalidFormatError">>,
                [__qualname__ |-> "InvalidImageIdError",
                 code |-> 311,
                 message |-> "Invalid image ID.",
                 regex |-> "[0-9]+"],
                {})
   []
      k = "InvalidImageDeletionToken" ->
          ClassStatement(<<"ImageError", "InvalidFormatError">>,
                [__qualname__ |-> "InvalidImageDeletionToken",
                 code |-> 312,
                 message |-> "invalid image deletion token",
                 regex |-> "[a-zA-Z0-9]+"],
                {})
   []
      k = "AuthorizationError" ->
          ClassStatement(<<"ACNHError">>,
                [__qualname__ |-> "AuthorizationError"],
                {})
   []
      k = "MissingUserAgentStringError" ->
          ClassStatement(<<"AuthorizationError">>,
                [__qualname__ |-> "MissingUserAgentStringError",
                 code |-> 901,
                 message |-> "User-Agent header required",
                 http_status |-> HTTP_BAD_REQUEST],
                {})
   []
      k = "IncorrectAuthorizationError" ->
          ClassStatement(<<"AuthorizationError">>,
                [__qualname__ |-> "IncorrectAuthorizationError",
                 code |-> 902,
                 message |-> "invalid or incorrect Authorization header",
                 http_status |-> HTTP_UNAUTHORIZED],
                {"__init__"})

\* The classes reached from the classes of ks, depth first, bases in order.
RECURSIVE Ancestry(_)
Ancestry(ks) ==
    IF ks = <<>> THEN <<>>
    ELSE <<Head(ks)>> \o Ancestry(ErrorClass(Head(ks)).bases) \o Ancestry(Tail(ks))

\* cls.__mro__: the class, then the classes it is made from, a class that
\* is reached several times standing where it is reached last (the C3
\* order of the hierarchies of this module).
Mro(k) ==
    LET all == Ancestry(<<k>>)
        IsKept(i) == \A j \in (i + 1)..Len(all) : all[j] # all[i]
        places == SelectSeq([i \in 1..Len(all) |-> i], IsKept)
    IN  [i \in 1..Len(places) |-> all[places[i]]]

\* getattr(self, name): the instance's own attribute, else the first class
\* of the order whose body assigns the name, else AttributeError
GetAttr(self, name) ==
    LET mro == Mro(self.__class__)
        has == {i \in 1..Len(mro) : name \in DOMAIN ErrorClass(mro[i]).attrs}
    IN  IF name \in DOMAIN self THEN Return(self[name])
        ELSE IF has = {} THEN Raise("AttributeError")
        ELSE Return(ErrorClass(mro[CHOOSE i \in has : \A j \in has : i <= j]).attrs[name])

\* None: the object of NoneType
None == [__class__ |-> "NoneType"]

\* d[key] = value
DictSet(d, key, value) ==
    [x \in DOMAIN d \cup {key} |-> IF x = key THEN value ELSE d[x]]

\* ACNHError.to_dict
ACNHError_to_dict(self) ==
    LET message == GetAttr(self, "message")
        code == GetAttr(self, "code")
        http_status == GetAttr(self, "http_status")
    IN  IF message.exc # "None" THEN message
        ELSE IF code.exc # "None" THEN code
        ELSE IF http_status.exc # "None" THEN http_status
        ELSE Return([error |-> message.val, error_code |-> code.val,
                     http_status |-> http_status.val])

\* InvalidLayerIndexError.to_dict, d being what super().to_dict() gave
InvalidLayerIndexError_to_dict(self, d) ==
    IF d.exc # "None" THEN d
    ELSE LET filled == DictSet(d.val, "num_layers", self.num_layers)
         IN  Return(None)

\* self.to_dict(), looked up from the i-th class of the order on (super()
\* in the body of a class goes on from the class after it)
RECURSIVE ToDictFrom(_, _)
ToDictFrom(self, i) ==
    LET mro == Mro(self.__class__)
        has == {j \in i..Len(mro) : "to_dict" \in ErrorClass(mro[j]).methods}
        at == CHOOSE j \in has : \A l \in has : j <= l
        k == mro[at]
        d == ToDictFrom(self, at + 1)
    IN  IF has = {} THEN Raise("AttributeError")
        ELSE CASE k = "ACNHError" -> ACNHError_to_dict(self)
               [] k = "InvalidFormatError" ->
                    LET regex == GetAttr(self, "regex")
                    IN  IF d.exc # "None" THEN d
                        ELSE IF regex.exc # "None" THEN regex
                        ELSE Return(DictSet(d.val, "validation_regex", regex.val))
               [] k = "InvalidLayerIndexError" -> InvalidLayerIndexError_to_dict(self, d)
               [] k = "InvalidLayerSizeError" ->
                    IF d.exc # "None" THEN d
                    ELSE Return(DictSet(DictSet(DictSet(DictSet(d.val,
                             "expected_width", self.width),
                             "expected_height", self.height),
                             "expected_byte_length", self.width * self.height * BYTES_PER_PIXEL),
                             "message", Format(GetAttr(self, "message").val, self)))
               [] k = "InvalidImageArgument" ->
                    IF d.exc # "None" THEN d
                    ELSE Return(DictSet(DictSet(d.val, "argument_name", self.argument_name),
                                        "error", Format(d.val.error, self)))
               [] k = "InvalidLayerNameError" ->
                    IF d.exc # "None" THEN d
                    ELSE Return(DictSet(d.val, "valid_layer_names", self.valid_layer_names))
               [] k = "InvalidLayerError" ->
                    IF d.exc # "None" THEN d
                    ELSE Return(DictSet(DictSet(DictSet(d.val,
                             "layer_name", self.layer.name),
                             "layer_size", self.layer.size),
                             "error", Format(GetAttr(self, "message").val, self)))

\* self.to_dict()
to_dict(self) == ToDictFrom(self, 1)

\* int(self): ACNHError.__int__
ACNHError_int(self) ==
    LET mro == Mro(self.__class__)
    IN  IF \A i \in 1..Len(mro) : "__int__" \notin ErrorClass(mro[i]).methods
        THEN Raise("TypeError")
        ELSE GetAttr(self, "code")

(***************************************************************************)
(* The errors on their own: an error of a class the module binds a name to *)
(* is made, and its code or status is read, or it is converted with int,   *)
(* or its report is asked for.                                             *)
(***************************************************************************)
\* The classes the module's names are bound to once it is imported.
ModuleClasses ==
    ErrorClassNames \ {"Exception", "InvalidLayerSizeError:104", "InvalidImageError:134"}

\* cls(**args): the instance after __init__
New(k, args) ==
    CASE k = "InvalidLayerIndexError" -> [__class__ |-> k, num_layers |-> args.num_layers]
      [] k = "InvalidLayerSizeError" ->
            [__class__ |-> k, width |-> args.width, height |-> args.height]
      [] k = "InvalidImageArgument" -> [__class__ |-> k, argument_name |-> args.argument_name]
      [] k = "InvalidLayerNameError" ->
            [__class__ |-> k,
             valid_layer_names |-> DesignTypes[args.design.type].external_layer_names]
      [] k \in {"InvalidLayerError", "MissingLayerError"} ->
            [__class__ |-> k, layer |-> args.layer]
      [] k = "IncorrectAuthorizationError" -> [__class__ |-> k, path |-> args.path]
      [] OTHER -> [__class__ |-> k]

InitArgs(k) ==
    CASE k = "InvalidLayerIndexError" -> {[num_layers |-> n] : n \in {1, 4}}
      [] k = "InvalidLayerSizeError" ->
            {[width |-> sz[1], height |-> sz[2]] : sz \in {STANDARD, SHORT_SLEEVE, LONG_BODY}}
      [] k = "InvalidImageArgument" ->
            {[argument_name |-> n] : n \in {"image", "scale"}}
      [] k = "InvalidLayerNameError" ->
            {[design |-> Design(t, <<>>)] : t \in DOMAIN DesignTypes}
      [] k \in {"InvalidLayerError", "MissingLayerError"} ->
            {[layer |-> l] : l \in Range(STANDARD_BODY_LAYERS \o SHORT_SLEEVE_LAYERS)}
      [] k = "IncorrectAuthorizationError" -> {[path |-> p] : p \in {"None", "/designs"}}
      [] OTHER -> {<<>>}

InitErrors ==
    /\ call = [op |-> "idle"]
    /\ requests = <<>>
    /\ outcome = Pending

\* self.code, self.http_status
ReadAttribute ==
    /\ call.op = "idle"
    /\ \E k \in ModuleClasses : \E args \in InitArgs(k) : \E name \in {"code", "http_status"} :
          /\ call' = [op |-> "getattr", self |-> New(k, args), name |-> name]
          /\ outcome' = GetAttr(New(k, args), name)
    /\ UNCHANGED requests

\* int(self)
IntOfError ==
    /\ call.op = "idle"
    /\ \E k \in ModuleClasses : \E args \in InitArgs(k) :
          /\ call' = [op |-> "int", self |-> New(k, args)]
          /\ outcome' = ACNHError_int(New(k, args))
    /\ UNCHANGED requests

\* self.to_dict()
ToDict ==
    /\ call.op = "idle"
    /\ \E k \in ModuleClasses : \E args \in InitArgs(k) :
          /\ call' = [op |-> "to_dict", self |-> New(k, args)]
          /\ outcome' = to_dict(New(k, args))
    /\ UNCHANGED requests

NextErrors == ReadAttribute \/ IntOfError \/ ToDict

SpecErrors == InitErrors /\ [][NextErrors]_vars

\* The rows of the canonical table, by class: the code or codes, and the
\* status.
TableKinds ==
    ModuleClasses \ {"ACNHError", "InvalidFormatError", "DodoCodeError", "ImageError",
                     "DesignError", "InvalidLayerError", "AuthorizationError"}

TableCodes(k) ==
    CASE k = "UnknownDodoCodeError" -> {101}
      [] k = "InvalidDodoCodeError" -> {102}
      [] k = "UnknownDesignCodeError" -> {201}
      [] k = "InvalidDesignCodeError" -> {202}
      [] k = "UnknownAuthorIdError" -> {203}
      [] k = "InvalidScaleFactorError" -> {204}
      [] k = "InvalidAuthorIdError" -> {205}
      [] k = "InvalidProArgument" -> {206}
      [] k = "InvalidDesignError" -> {207}
      [] k = "InvalidPaletteError" -> {208}
      [] k = "InvalidLayerSizeError" -> {209, 305}
      [] k = "CannotScaleThumbnailError" -> {230}
      [] k = "UnknownImageIdError" -> {301}
      [] k = "InvalidLayerIndexError" -> {302}
      [] k = "DeletionDeniedError" -> {303}
      [] k = "SingleLayerRequired" -> {304}
      [] k = "TiledImageTooBigError" -> {306}
      [] k = "InvalidImageArgument" -> {307}
      [] k = "InvalidLayerNameError" -> {308}
      [] k = "MissingLayerError" -> {309}
      [] k = "InvalidImageError" -> {310}
      [] k = "InvalidImageIdError" -> {311}
      [] k = "InvalidImageDeletionToken" -> {312}
      [] k = "MissingUserAgentStringError" -> {901}
      [] k = "IncorrectAuthorizationError" -> {902}

TableStatus(k) ==
    CASE k \in {"UnknownDodoCodeError", "UnknownDesignCodeError", "UnknownAuthorIdError",
                "UnknownImageIdError"} -> 404
      [] k \in {"DeletionDeniedError", "IncorrectAuthorizationError"} -> 401
      [] k = "TiledImageTooBigError" -> 413
      [] OTHER -> 400

OfTableKind == call.op # "idle" /\ call.self.__class__ \in TableKinds

\* C11: every error kind of the canonical table exposes the code and the
\* http_status of its row, and its to_dict() returns a mapping that has
\* error, error_code and http_status, the last two with the row's values.
C11_ErrorTable ==
    OfTableKind =>
        LET k == call.self.__class__
        IN  /\ (call.op = "getattr" /\ call.name = "code") =>
                  outcome.exc = "None" /\ outcome.val \in TableCodes(k)
            /\ (call.op = "getattr" /\ call.name = "http_status") =>
                  outcome.exc = "None" /\ outcome.val = TableStatus(k)
            /\ call.op = "to_dict" =>
                  /\ outcome.exc = "None"
                  /\ {"error", "error_code", "http_status"} \subseteq DOMAIN outcome.val
                  /\ outcome.val.error_code \in TableCodes(k)
                  /\ outcome.val.http_status = TableStatus(k)

(***************************************************************************)
(* The registered design types on their own: a class is asked for by its   *)
(* type code, or a layer of a registered class's lists is read.            *)
(***************************************************************************)
\* Design.design_type_codes: the registered class names by type code
design_type_codes ==
    [code \in {DesignTypes[n].type_code : n \in DesignTypeNames} |->
        CHOOSE n \in DesignTypeNames : DesignTypes[n].type_code = code]

\* Design(type), type an int: the registered class
Design_new(type) ==
    IF type \notin DOMAIN design_type_codes THEN Raise("KeyError")
    ELSE Return(DesignTypes[design_type_codes[type]])

\* layers[i], i not negative
ListItem(layers, i) ==
    IF i >= Len(layers) THEN Raise("IndexError") ELSE Return(layers[i + 1])

TypeCodeArgs == 98..115

LayerIndexArgs == 0..4

InitCatalog ==
    /\ call = [op |-> "idle"]
    /\ requests = <<>>
    /\ outcome = Pending

\* Design(type)
DesignOfType ==
    /\ call.op = "idle"
    /\ \E type \in TypeCodeArgs :
          /\ call' = [op |-> "Design", type |-> type]
          /\ outcome' = Design_new(type)
    /\ UNCHANGED requests

\* cls.internal_layers[i]
InternalLayer ==
    /\ call.op = "idle"
    /\ \E n \in DesignTypeNames : \E i \in LayerIndexArgs :
          /\ call' = [op |-> "internal_layers", cls |-> n, i |-> i]
          /\ outcome' = ListItem(DesignTypes[n].internal_layers, i)
    /\ UNCHANGED requests

\* cls.external_layers[i]
ExternalLayer ==
    /\ call.op = "idle"
    /\ \E n \in DesignTypeNames : \E i \in LayerIndexArgs :
          /\ call' = [op |-> "external_layers", cls |-> n, i |-> i]
          /\ outcome' = ListItem(DesignTypes[n].external_layers, i)
    /\ UNCHANGED requests

NextCatalog == DesignOfType \/ InternalLayer \/ ExternalLayer

SpecCatalog == InitCatalog /\ [][NextCatalog]_vars

\* The size the claim gives the i-th internal layer (from 0) of a class.
SlotSize(cls, i) == IF cls.type_code = 113 /\ i >= 2 THEN <<32, 21>> ELSE STANDARD

\* C12: a registered class that has a correspondence list has exactly four
\* internal layers, named "0" to "3", each 32x32 (32x21 for slots 2 and 3
\* of KnitCap); so has a class that does not assign internal_layers itself.
C12_FourStandardSlots ==
    /\ (call.op = "Design" /\ outcome.exc = "None" /\ ~outcome.val.one_to_one) =>
          /\ Len(outcome.val.internal_layers) = 4
          /\ \A i \in 0..3 :
                outcome.val.internal_layers[i + 1] = Layer(Str(i), SlotSize(outcome.val, i))
    /\ (call.op = "internal_layers" /\ ~DesignTypes[call.cls].one_to_one) =>
          IF call.i > 3 THEN outcome.exc = "IndexError"
          ELSE outcome = Return(Layer(Str(call.i), SlotSize(DesignTypes[call.cls], call.i)))

=============================================================================
